---- MODULE Spec2Model ----
(***************************************************************************)
(* A model of objviewer (src/src/main.rs): the edge extractor, the start-  *)
(* up sequence, the event loop with its orbit camera, and the per-frame    *)
(* pass sequence.                                                          *)
(*                                                                         *)
(* f32 values are modelled exactly.  A camera value v is held as the       *)
(* integer v * 2^27; every f32 the loop can produce from the inputs below  *)
(* is a multiple of 2^-27, and RoundF32 rounds a sum or product to the     *)
(* 24-bit significand of an f32 (round to nearest, ties to even).          *)
(***************************************************************************)
EXTENDS Integers, Sequences, FiniteSets

VARIABLES
    vertex_data,          \* main.rs:78  flat mesh positions
    edge_data,            \* main.rs:89  flat edge positions
    pc,                   \* position of main()
    error,                \* the Err main() returned with, or "none"
    depth_test,           \* GL DEPTH_TEST capability
    programs,             \* shader programs created so far
    gl_status,            \* statuses the backend reported to the last create_shader_program
    camera_theta,         \* main.rs:139
    camera_phi,           \* main.rs:140
    camera_zoom_factor,   \* main.rs:141
    mouse_last_x,         \* main.rs:145
    mouse_last_y,         \* main.rs:146
    mouse_is_dragging,    \* main.rs:147
    event,                \* main.rs:154  the event being matched
    frame_ops,            \* backend operations of the current iteration
    events_handled,       \* number of events taken from the pump
    wheel_up_run,         \* wheel events so far, while all had y > 0 (else -1)
    wheel_down_run,       \* wheel events so far, while all had y <= 0 (else -1)
    drag_anchor           \* where the latest left press or dragging motion put the pointer

vars == <<vertex_data, edge_data, pc, error, depth_test, programs, gl_status,
          camera_theta, camera_phi, camera_zoom_factor,
          mouse_last_x, mouse_last_y, mouse_is_dragging,
          event, frame_ops, events_handled, wheel_up_run, wheel_down_run,
          drag_anchor>>

camera == <<camera_theta, camera_phi, camera_zoom_factor>>
drag   == <<mouse_last_x, mouse_last_y, mouse_is_dragging>>
setup  == <<vertex_data, edge_data, programs, gl_status>>

(***************************************************************************)
(* Bounds                                                                  *)
(***************************************************************************)
MaxTriangles == 2      \* meshes of 0..MaxTriangles triangles enter the loop
MaxFloats    == 18     \* longest input handed to the edge extractor on its own
MaxEvents    == 5      \* events taken from the pump in one run of the full loop
MaxRun       == 100    \* the wheel run counters saturate here

(***************************************************************************)
(* f32 arithmetic, in units of 2^-27                                       *)
(***************************************************************************)
Abs(v) == IF v < 0 THEN -v ELSE v

\* the spacing of f32 values around v: 24 significant bits
Quantum(v) ==
    LET a == Abs(v)
        m == 16777216      \* 2^24
    IN  IF a < m THEN 1
        ELSE IF a < 2 * m THEN 2
        ELSE IF a < 4 * m THEN 4
        ELSE IF a < 8 * m THEN 8
        ELSE IF a < 16 * m THEN 16
        ELSE IF a < 32 * m THEN 32
        ELSE IF a < 64 * m THEN 64
        ELSE 128

\* round to nearest representable f32, ties to even
RoundF32(v) ==
    LET q  == Quantum(v)
        lo == (v \div q) * q
        r  == v - lo
    IN  IF 2 * r < q THEN lo
        ELSE IF 2 * r > q THEN lo + q
        ELSE IF (lo \div q) % 2 = 0 THEN lo ELSE lo + q

AddF32(a, b) == RoundF32(a + b)
SubF32(a, b) == RoundF32(a - b)

\* f32::clamp
Clamp(v, lo, hi) == IF v < lo THEN lo ELSE IF v > hi THEN hi ELSE v

One        == 134217728                \* 1.0f32
Tenth      == 13421773                 \* 0.1f32  = 13421773 * 2^-27
FRAC_PI_2  == 210828720                \* std::f32::consts::FRAC_PI_2 = 13176795 * 2^-23
ZoomMin    == Tenth                    \* 0.1f32
ZoomMax    == 10 * One                 \* 10.0f32
DragGain30 == 5368709                  \* 0.005f32 = 5368709 * 2^-30

\* d * 0.005 in f32, for a pixel delta d that is 0 or at least 13 pixels
MulDragGain(d) == RoundF32(d * DragGain30) \div 8

(***************************************************************************)
(* Edge extractor (main.rs:277-296)                                        *)
(***************************************************************************)
\* slice::chunks_exact(9): the whole chunks, the remainder is dropped
ChunksExact9(data) ==
    [t \in 1..(Len(data) \div 9) |-> SubSeq(data, 9 * (t - 1) + 1, 9 * t)]

\* mutant: the closing edge pushed as (v0, v2)
TriangleEdgesClosingReversed(triangle) ==
    LET v0 == SubSeq(triangle, 1, 3)
        v1 == SubSeq(triangle, 4, 6)
        v2 == SubSeq(triangle, 7, 9)
    IN  v0 \o v1 \o v1 \o v2 \o v0 \o v2

\* the body of the loop: the 18 values pushed for one triangle
TriangleEdges(triangle) ==
    LET v0 == SubSeq(triangle, 1, 3)
        v1 == SubSeq(triangle, 4, 6)
        v2 == SubSeq(triangle, 7, 9)
    IN  v0 \o v1 \o v1 \o v2 \o v2 \o v0

RECURSIVE ConcatEdges(_, _)
ConcatEdges(chunks, t) ==
    IF t > Len(chunks) THEN <<>>
    ELSE TriangleEdges(chunks[t]) \o ConcatEdges(chunks, t + 1)

extract_edges_from_triangles(data) == ConcatEdges(ChunksExact9(data), 1)

(***************************************************************************)
(* Inputs                                                                  *)
(***************************************************************************)
Coords == {0, 1}

\* any slice a caller can hand to the extractor
FloatSlices == UNION {[1..n -> Coords] : n \in 0..MaxFloats}

\* what main() builds at lines 78-87: three positions per loaded triangle
Meshes == {[i \in 1..(9 * n) |-> (i * i) % 2] : n \in 0..MaxTriangles}

CursorXs == {0, 100}
CursorYs == {0, 320}
WheelYs  == {-1, 0, 1, 3}

NoEvent == [kind |-> "None", key |-> "-", btn |-> "-", x |-> 0, y |-> 0]
Ev(kind, key, btn, x, y) == [kind |-> kind, key |-> key, btn |-> btn, x |-> x, y |-> y]

QuitEvents   == {Ev("Quit", "-", "-", 0, 0)}
KeyEvents    == {Ev("KeyDown", k, "-", 0, 0) :
                    k \in {"Escape", "Left", "Right", "Up", "Down", "A"}}
DownEvents   == {Ev("MouseButtonDown", "-", "Left", x, y) : x \in CursorXs, y \in CursorYs}
                \cup {Ev("MouseButtonDown", "-", "Right", 100, 320)}
UpEvents     == {Ev("MouseButtonUp", "-", b, 0, 0) : b \in {"Left", "Right"}}
MotionEvents == {Ev("MouseMotion", "-", "-", x, y) : x \in CursorXs, y \in CursorYs}
WheelEvents  == {Ev("MouseWheel", "-", "-", 0, y) : y \in WheelYs}
OtherEvents  == {Ev("Window", "-", "-", 0, 0)}

Events == QuitEvents \cup KeyEvents \cup DownEvents \cup UpEvents
          \cup MotionEvents \cup WheelEvents \cup OtherEvents

(***************************************************************************)
(* Start-up (main.rs:73-151)                                               *)
(***************************************************************************)
NoStatus == [vertex |-> FALSE, fragment |-> FALSE, link |-> FALSE, asked |-> FALSE]

Init ==
    /\ vertex_data \in Meshes
    /\ edge_data = <<>>
    /\ pc = "extract"
    /\ error = "none"
    /\ depth_test = FALSE
    /\ programs = {}
    /\ gl_status = NoStatus
    /\ camera_theta = 0
    /\ camera_phi = 0
    /\ camera_zoom_factor = One
    /\ mouse_last_x = 0
    /\ mouse_last_y = 0
    /\ mouse_is_dragging = FALSE
    /\ event = NoEvent
    /\ frame_ops = <<>>
    /\ events_handled = 0
    /\ wheel_up_run = 0
    /\ wheel_down_run = 0
    /\ drag_anchor = <<0, 0>>

loop_state == <<camera_theta, camera_phi, camera_zoom_factor,
                mouse_last_x, mouse_last_y, mouse_is_dragging,
                event, frame_ops, events_handled, wheel_up_run, wheel_down_run,
                drag_anchor>>

\* main.rs:89
ExtractEdges ==
    /\ pc = "extract"
    /\ edge_data' = extract_edges_from_triangles(vertex_data)
    /\ pc' = "gl_enable"
    /\ UNCHANGED <<vertex_data, error, depth_test, programs, gl_status, loop_state>>

\* main.rs:122
EnableDepthAtStart ==
    /\ pc = "gl_enable"
    /\ depth_test' = TRUE
    /\ pc' = "obj_program"
    /\ UNCHANGED <<vertex_data, edge_data, error, programs, gl_status, loop_state>>

\* create_shader_program (main.rs:298-330), given what the backend reports from
\* get_shader_compile_status (vertex, fragment) and get_program_link_status
create_shader_program(vertex_ok, fragment_ok, link_ok) ==
    IF vertex_ok THEN "vertex shader failed to compile"
    ELSE IF fragment_ok THEN "fragment shader failed to compile"
    ELSE IF link_ok THEN "program failed to link"
    ELSE "ok"

\* one `create_shader_program(..)?` of main, followed by its buffer creation
SetupProgram(at, name, next) ==
    /\ pc = at
    /\ \E v \in BOOLEAN, f \in BOOLEAN, l \in BOOLEAN :
          LET r == create_shader_program(v, f, l) IN
          /\ gl_status' = [vertex |-> v, fragment |-> f, link |-> l, asked |-> TRUE]
          /\ IF r = "ok"
             THEN /\ programs' = programs \cup {name}
                  /\ pc' = next
                  /\ error' = error
             ELSE /\ programs' = programs
                  /\ pc' = "aborted"
                  /\ error' = r
    /\ UNCHANGED <<vertex_data, edge_data, depth_test, loop_state>>

SetupObj   == SetupProgram("obj_program", "obj", "edges_program")      \* main.rs:125-127
SetupEdges == SetupProgram("edges_program", "edges", "axis_program")   \* main.rs:130-132
SetupAxis  == SetupProgram("axis_program", "axis", "poll")             \* main.rs:135-151

(***************************************************************************)
(* Event loop (main.rs:153-232)                                            *)
(***************************************************************************)
\* mutant: every key-down leaves the loop
ArmQuitAnyKey(e) == e.kind = "Quit" \/ e.kind = "KeyDown"

\* the arms of the match, in source order; the first that matches is taken
ArmQuit(e)       == e.kind = "Quit" \/ (e.kind = "KeyDown" /\ e.key = "Escape")
ArmButtonDown(e) == e.kind = "MouseButtonDown" /\ e.btn = "Left"
ArmButtonUp(e)   == e.kind = "MouseButtonUp" /\ e.btn = "Left"
ArmMotion(e)     == e.kind = "MouseMotion"
ArmKey(e, k)     == e.kind = "KeyDown" /\ e.key = k
ArmWheel(e)      == e.kind = "MouseWheel"
ArmDefault(e)    ==
    /\ ~ArmQuit(e) /\ ~ArmButtonDown(e) /\ ~ArmButtonUp(e) /\ ~ArmMotion(e)
    /\ ~ArmKey(e, "Left") /\ ~ArmKey(e, "Right") /\ ~ArmKey(e, "Up") /\ ~ArmKey(e, "Down")
    /\ ~ArmWheel(e)

\* main.rs:183-186
DragPhi(phi, dy) == Clamp(AddF32(phi, MulDragGain(dy)), -FRAC_PI_2, FRAC_PI_2)
\* mutant: the yaw turned against the drag
DragThetaInverted(theta, dx) == SubF32(theta, MulDragGain(dx))

\* main.rs:182
DragTheta(theta, dx) == AddF32(theta, MulDragGain(dx))
\* mutant: the upper clamp left out
TiltUpUnclamped(phi) == AddF32(phi, Tenth)

\* main.rs:208-211
TiltUp(phi) ==
    LET p == AddF32(phi, Tenth) IN IF p > FRAC_PI_2 THEN FRAC_PI_2 ELSE p
\* mutant: the lower clamp left out
TiltDownUnclamped(phi) == SubF32(phi, Tenth)

\* main.rs:217-220
TiltDown(phi) ==
    LET p == SubF32(phi, Tenth) IN IF p < -FRAC_PI_2 THEN -FRAC_PI_2 ELSE p
\* mutant: the step scaled by the wheel delta
ZoomByMagnitude(zoom, y) == Clamp(SubF32(zoom, RoundF32(y * Tenth)), ZoomMin, ZoomMax)

\* mutant: the lower clamp bound written as 0.0
ZoomClampedAtZero(zoom, y) ==
    Clamp(IF y > 0 THEN SubF32(zoom, Tenth) ELSE AddF32(zoom, Tenth), 0, ZoomMax)

\* main.rs:223-228
Zoom(zoom, y) ==
    Clamp(IF y > 0 THEN SubF32(zoom, Tenth) ELSE AddF32(zoom, Tenth), ZoomMin, ZoomMax)

Saturating(n, max) == IF n < max THEN n + 1 ELSE n

\* poll_iter() yields e (main.rs:154)
Take(e) ==
    /\ pc = "poll"
    /\ event' = e
    /\ events_handled' = Saturating(events_handled, MaxEvents)
    /\ drag_anchor' =
          IF e.kind = "MouseButtonDown" /\ e.btn = "Left" THEN <<e.x, e.y>>
          ELSE IF e.kind = "MouseMotion" /\ mouse_is_dragging THEN <<e.x, e.y>>
          ELSE drag_anchor
    /\ UNCHANGED <<setup, error, depth_test, frame_ops>>

NoWheel == UNCHANGED <<wheel_up_run, wheel_down_run>>

\* mutant: a plain `break` that leaves only the for loop, so the frame is drawn
OnQuitBreaksInnerLoop ==
    \E e \in Events :
        /\ ArmQuit(e)
        /\ pc = "poll"
        /\ event' = e
        /\ events_handled' = Saturating(events_handled, MaxEvents)
        /\ pc' = "clear"
        /\ frame_ops' = <<[op |-> "drain", pass |-> "-", prim |-> "-", count |-> 0,
                           depth |-> depth_test]>>
        /\ UNCHANGED <<setup, error, depth_test, camera, drag, drag_anchor>>
        /\ NoWheel

\* main.rs:156-160
OnQuit ==
    \E e \in Events :
        /\ ArmQuit(e)
        /\ Take(e)
        /\ pc' = "terminated"
        /\ UNCHANGED <<camera, drag>>
        /\ NoWheel

\* mutant: the press starts the drag without storing the pointer position
OnMouseButtonDownNoCursor ==
    \E e \in Events :
        /\ ~ArmQuit(e) /\ ArmButtonDown(e)
        /\ Take(e)
        /\ mouse_is_dragging' = TRUE
        /\ pc' = "poll"
        /\ UNCHANGED <<camera, mouse_last_x, mouse_last_y>>
        /\ NoWheel

\* main.rs:161-170
OnMouseButtonDown ==
    \E e \in Events :
        /\ ~ArmQuit(e) /\ ArmButtonDown(e)
        /\ Take(e)
        /\ mouse_is_dragging' = TRUE
        /\ mouse_last_x' = e.x
        /\ mouse_last_y' = e.y
        /\ pc' = "poll"
        /\ UNCHANGED camera
        /\ NoWheel

\* mutant: the release arm does not end the drag
OnMouseButtonUpIgnored ==
    \E e \in Events :
        /\ ~ArmQuit(e) /\ ArmButtonUp(e)
        /\ Take(e)
        /\ pc' = "poll"
        /\ UNCHANGED <<camera, drag>>
        /\ NoWheel

\* main.rs:171-176
OnMouseButtonUp ==
    \E e \in Events :
        /\ ~ArmQuit(e) /\ ArmButtonUp(e)
        /\ Take(e)
        /\ mouse_is_dragging' = FALSE
        /\ pc' = "poll"
        /\ UNCHANGED <<camera, mouse_last_x, mouse_last_y>>
        /\ NoWheel

\* mutant: the pointer position is tracked while no drag is in progress
OnMouseMotionTracksIdle ==
    \E e \in Events :
        /\ ~ArmQuit(e) /\ ArmMotion(e)
        /\ Take(e)
        /\ IF mouse_is_dragging
           THEN /\ camera_theta' = AddF32(camera_theta, MulDragGain(e.x - mouse_last_x))
                /\ camera_phi' = Clamp(AddF32(camera_phi, MulDragGain(e.y - mouse_last_y)),
                                       -FRAC_PI_2, FRAC_PI_2)
           ELSE UNCHANGED <<camera_theta, camera_phi>>
        /\ mouse_last_x' = e.x
        /\ mouse_last_y' = e.y
        /\ pc' = "poll"
        /\ UNCHANGED <<camera_zoom_factor, mouse_is_dragging>>
        /\ NoWheel

\* main.rs:177-191
OnMouseMotion ==
    \E e \in Events :
        /\ ~ArmQuit(e) /\ ArmMotion(e)
        /\ Take(e)
        /\ IF mouse_is_dragging
           THEN /\ camera_theta' = DragTheta(camera_theta, e.x - mouse_last_x)
                /\ camera_phi' = DragPhi(camera_phi, e.y - mouse_last_y)
                /\ mouse_last_x' = e.x
                /\ mouse_last_y' = e.y
           ELSE UNCHANGED <<camera_theta, camera_phi, mouse_last_x, mouse_last_y>>
        /\ pc' = "poll"
        /\ UNCHANGED <<camera_zoom_factor, mouse_is_dragging>>
        /\ NoWheel

\* main.rs:192-197
OnKeyLeft ==
    \E e \in Events :
        /\ ~ArmQuit(e) /\ ArmKey(e, "Left")
        /\ Take(e)
        /\ camera_theta' = SubF32(camera_theta, Tenth)
        /\ pc' = "poll"
        /\ UNCHANGED <<camera_phi, camera_zoom_factor, drag>>
        /\ NoWheel

\* main.rs:198-203
OnKeyRight ==
    \E e \in Events :
        /\ ~ArmQuit(e) /\ ArmKey(e, "Right")
        /\ Take(e)
        /\ camera_theta' = AddF32(camera_theta, Tenth)
        /\ pc' = "poll"
        /\ UNCHANGED <<camera_phi, camera_zoom_factor, drag>>
        /\ NoWheel

\* main.rs:204-212
OnKeyUp ==
    \E e \in Events :
        /\ ~ArmQuit(e) /\ ArmKey(e, "Up")
        /\ Take(e)
        /\ camera_phi' = TiltUp(camera_phi)
        /\ pc' = "poll"
        /\ UNCHANGED <<camera_theta, camera_zoom_factor, drag>>
        /\ NoWheel

\* main.rs:213-221
OnKeyDown ==
    \E e \in Events :
        /\ ~ArmQuit(e) /\ ArmKey(e, "Down")
        /\ Take(e)
        /\ camera_phi' = TiltDown(camera_phi)
        /\ pc' = "poll"
        /\ UNCHANGED <<camera_theta, camera_zoom_factor, drag>>
        /\ NoWheel

\* main.rs:222-229
OnMouseWheel ==
    \E e \in Events :
        /\ ~ArmQuit(e) /\ ArmWheel(e)
        /\ Take(e)
        /\ camera_zoom_factor' = Zoom(camera_zoom_factor, e.y)
        /\ wheel_up_run' =
              IF e.y > 0 /\ wheel_up_run >= 0
              THEN Saturating(wheel_up_run, MaxRun) ELSE -1
        /\ wheel_down_run' =
              IF ~(e.y > 0) /\ wheel_down_run >= 0
              THEN Saturating(wheel_down_run, MaxRun) ELSE -1
        /\ pc' = "poll"
        /\ UNCHANGED <<camera_theta, camera_phi, drag>>

\* main.rs:230
OnOtherEvent ==
    \E e \in Events :
        /\ ArmDefault(e)
        /\ Take(e)
        /\ pc' = "poll"
        /\ UNCHANGED <<camera, drag>>
        /\ NoWheel

(***************************************************************************)
(* Frame (main.rs:234-272)                                                 *)
(***************************************************************************)
DrawOp(pass, prim, count) ==
    [op |-> "draw", pass |-> pass, prim |-> prim, count |-> count, depth |-> depth_test]
Op(name) == [op |-> name, pass |-> "-", prim |-> "-", count |-> 0, depth |-> depth_test]

\* mutant: the float length handed over undivided
ObjDrawCountFloats(data) == Len(data)

\* the count main() hands to draw_obj (main.rs:260)
ObjDrawCount(data) == Len(data) \div 3
\* the count main() hands to draw_edges (main.rs:263)
EdgesDrawCount(edges) == Len(edges)
\* the count draw_axes passes to draw_arrays (main.rs:492)
AxesDrawCount == 6

\* poll_iter() is exhausted (main.rs:154, 232)
PollDone ==
    /\ pc = "poll"
    /\ pc' = "clear"
    /\ event' = NoEvent
    /\ frame_ops' = <<Op("drain")>>
    /\ UNCHANGED <<setup, error, depth_test, camera, drag, events_handled,
                   wheel_up_run, wheel_down_run, drag_anchor>>

Step(at, next, ops) ==
    /\ pc = at
    /\ pc' = next
    /\ frame_ops' = frame_ops \o ops
    /\ UNCHANGED <<setup, error, camera, drag, event, events_handled,
                   wheel_up_run, wheel_down_run, drag_anchor>>

\* mutant: the error is noted and the loop goes on to the next iteration
AbortAndRetry(at, msg) ==
    /\ pc = at
    /\ pc' = "poll"
    /\ error' = msg
    /\ UNCHANGED <<setup, depth_test, camera, drag, event, frame_ops, events_handled,
                   wheel_up_run, wheel_down_run, drag_anchor>>

\* a draw_* call returns Err: `?` returns from main (main.rs:449, 472, 487)
Abort(at, msg) ==
    /\ pc = at
    /\ pc' = "aborted"
    /\ error' = msg
    /\ UNCHANGED <<setup, depth_test, camera, drag, event, frame_ops, events_handled,
                   wheel_up_run, wheel_down_run, drag_anchor>>

\* draw_obj / draw_edges / draw_axes: use_program, get_uniform_location (which the
\* backend answers with Some or None), uniform upload, bind, draw_arrays
Draw(at, next, pass, prim, count) ==
    \/ Step(at, next, <<DrawOp(pass, prim, count)>>) /\ UNCHANGED depth_test
    \/ Abort(at, "no location for uniform")

\* mutant: the frame is drawn over the previous one, without a clear
ClearSkipped == Step("clear", "draw_obj", <<>>) /\ UNCHANGED depth_test

\* mutant: depth testing is not switched back on after the gizmo
EnableDepthForgotten == Step("enable_depth", "swap", <<>>) /\ UNCHANGED depth_test

\* main.rs:234-243
Clear == Step("clear", "draw_obj", <<Op("clear")>>) /\ UNCHANGED depth_test
\* main.rs:245-261, 439-458
DrawObj == Draw("draw_obj", "draw_edges", "mesh", "TRIANGLES", ObjDrawCount(vertex_data))
\* main.rs:263, 460-481
DrawEdges == Draw("draw_edges", "disable_depth", "edges", "LINES", EdgesDrawCount(edge_data))
\* main.rs:265
DisableDepth == Step("disable_depth", "draw_axes", <<>>) /\ depth_test' = FALSE
\* main.rs:267, 483-496
DrawAxes == Draw("draw_axes", "enable_depth", "axis", "LINES", AxesDrawCount)
\* main.rs:269
EnableDepth == Step("enable_depth", "swap", <<>>) /\ depth_test' = TRUE
\* main.rs:271
Swap == Step("swap", "poll", <<Op("swap")>>) /\ UNCHANGED depth_test

(***************************************************************************)
(* Specifications                                                          *)
(***************************************************************************)
Startup == ExtractEdges \/ EnableDepthAtStart \/ SetupObj \/ SetupEdges \/ SetupAxis

Frame == PollDone \/ Clear \/ DrawObj \/ DrawEdges \/ DisableDepth \/ DrawAxes
         \/ EnableDepth \/ Swap

Budget == events_handled < MaxEvents

\* every kind of event, at most MaxEvents of them in a run
Next ==
    \/ Startup
    \/ Frame
    \/ Budget /\ OnQuit
    \/ Budget /\ OnMouseButtonDown
    \/ Budget /\ OnMouseButtonUp
    \/ Budget /\ OnMouseMotion
    \/ Budget /\ OnKeyLeft
    \/ Budget /\ OnKeyRight
    \/ Budget /\ OnKeyUp
    \/ Budget /\ OnKeyDown
    \/ Budget /\ OnMouseWheel
    \/ Budget /\ OnOtherEvent

Spec == Init /\ [][Next]_vars

\* a run in which the pump delivers wheel and quit events only, any number of them
NextWheel == Startup \/ Frame \/ OnQuit \/ OnMouseWheel

SpecWheel == Init /\ [][NextWheel]_vars

\* the extractor applied to any slice
InitExtract ==
    /\ vertex_data \in FloatSlices
    /\ edge_data = <<>>
    /\ pc = "extract"
    /\ error = "none"
    /\ depth_test = FALSE
    /\ programs = {}
    /\ gl_status = NoStatus
    /\ camera_theta = 0
    /\ camera_phi = 0
    /\ camera_zoom_factor = One
    /\ mouse_last_x = 0
    /\ mouse_last_y = 0
    /\ mouse_is_dragging = FALSE
    /\ event = NoEvent
    /\ frame_ops = <<>>
    /\ events_handled = 0
    /\ wheel_up_run = 0
    /\ wheel_down_run = 0
    /\ drag_anchor = <<0, 0>>

SpecExtract == InitExtract /\ [][ExtractEdges]_vars

(***************************************************************************)
(* Properties                                                              *)
(***************************************************************************)
KeyUpEvent   == Ev("KeyDown", "Up", "-", 0, 0)
EscapeEvent  == Ev("KeyDown", "Escape", "-", 0, 0)
IsQuitOrEscape(e) == e.kind = "Quit" \/ (e.kind = "KeyDown" /\ e.key = "Escape")

LoopPcs == {"poll", "clear", "draw_obj", "draw_edges", "disable_depth", "draw_axes",
            "enable_depth", "swap", "terminated"}

\* C1: the pitch phi lies in [-pi/2, pi/2] in every state of the run, hence at the
\* end of every event handler and whenever a frame computes the camera position.
C1_PitchWithinClamp ==
    /\ -FRAC_PI_2 <= camera_phi
    /\ camera_phi <= FRAC_PI_2

\* a tilt-up handled with the pitch already at the upper clamp (after a drag
\* took it there) leaves it at pi/2
C1_TiltUpAtClamp ==
    /\ pc = "poll"
    /\ event = KeyUpEvent
    /\ events_handled >= 4
    /\ camera_phi = FRAC_PI_2

\* C2: zoom_factor lies in [0.1, 10.0] in every state; a run of wheel events with
\* y > 0 from the start (zoom 1.0) is above 0.1 for its first 8 events and exactly
\* 0.1 from the 9th on (so after 50); a run of wheel events with y <= 0 from the
\* start is exactly 10.0 from the 90th on.
C2_ZoomWithinClamp ==
    /\ ZoomMin <= camera_zoom_factor
    /\ camera_zoom_factor <= ZoomMax
    /\ (wheel_up_run >= 0 /\ wheel_up_run < 9) => camera_zoom_factor > ZoomMin
    /\ wheel_up_run >= 9 => camera_zoom_factor = ZoomMin
    /\ wheel_down_run >= 90 => camera_zoom_factor = ZoomMax

\* 50 wheel events with y > 0 and nothing else on the wheel
C2_FiftyScrollUps ==
    /\ wheel_up_run = 50
    /\ camera_zoom_factor = ZoomMin

\* C3: in the loop, depth testing is off exactly between the disable before the
\* gizmo pass and the enable after it; the mesh and edge draw calls are issued with
\* it on, the gizmo draw call with it off, and the present with it on.  (A run
\* that returns with an error ends there and is not constrained.)
C3_DepthTestDiscipline ==
    /\ pc \in LoopPcs => (depth_test <=> pc \notin {"draw_axes", "enable_depth"})
    /\ \A i \in DOMAIN frame_ops :
          /\ frame_ops[i].op = "draw" => (frame_ops[i].depth <=> frame_ops[i].pass # "axis")
          /\ frame_ops[i].op = "swap" => frame_ops[i].depth

\* a presented frame whose gizmo was drawn with depth testing off, with depth
\* testing on again as the next iteration polls
C3_FramePresented ==
    /\ pc = "poll"
    /\ depth_test
    /\ Len(frame_ops) = 6
    /\ frame_ops[5].pass = "axis" /\ ~frame_ops[5].depth
    /\ frame_ops[6].op = "swap"

\* C4: the backend operations of an iteration are, in order: the end of the event
\* drain, clear, one mesh draw (TRIANGLES), one edge draw (LINES), one gizmo draw
\* (LINES), one present; an iteration that is under way has issued a prefix of
\* this sequence, and no event is matched between the drain and the present.
FrameShape ==
    << <<"drain", "-", "-">>, <<"clear", "-", "-">>, <<"draw", "mesh", "TRIANGLES">>,
       <<"draw", "edges", "LINES">>, <<"draw", "axis", "LINES">>, <<"swap", "-", "-">> >>

OpShape(o) == <<o.op, o.pass, o.prim>>

IssuedAt(at) ==
    IF at = "clear" THEN 1
    ELSE IF at = "draw_obj" THEN 2
    ELSE IF at = "draw_edges" THEN 3
    ELSE IF at \in {"disable_depth", "draw_axes"} THEN 4
    ELSE IF at \in {"enable_depth", "swap"} THEN 5
    ELSE 6

C4_FrameOrder ==
    /\ Len(frame_ops) <= 6
    /\ \A i \in DOMAIN frame_ops : OpShape(frame_ops[i]) = FrameShape[i]
    /\ pc \in LoopPcs =>
          IF pc \in {"poll", "terminated"}
          THEN Len(frame_ops) \in {0, 6}
          ELSE Len(frame_ops) = IssuedAt(pc) /\ event = NoEvent

\* an iteration that drained at least one event and presented its frame
C4_IterationCompleted ==
    /\ pc = "poll"
    /\ event = NoEvent
    /\ events_handled >= 1
    /\ Len(frame_ops) = 6

\* C5: the edge pass issues its draw call with as many vertices as the edge buffer
\* has endpoints: a third of its float length, 6 per triangle.
C5_EdgeDrawCountIsEndpoints ==
    \A i \in DOMAIN frame_ops :
        frame_ops[i].pass = "edges" =>
            /\ frame_ops[i].count = Len(edge_data) \div 3
            /\ frame_ops[i].count = 6 * (Len(vertex_data) \div 9)

\* C6: the extractor, given a slice whose length is not a multiple of 9, fails
\* with InvalidGeometry and produces no output.
C6_ExtractRejectsRemainder ==
    (pc # "extract" /\ Len(vertex_data) % 9 # 0) =>
        /\ error = "InvalidGeometry"
        /\ edge_data = <<>>

\* C7: create_shader_program returns an error exactly when the vertex shader,
\* the fragment shader or the link did not succeed.
ShaderErrors == {"vertex shader failed to compile", "fragment shader failed to compile",
                 "program failed to link"}

C7_ShaderErrorIffBackendFailure ==
    (gl_status.asked /\ error # "no location for uniform") =>
        (error \in ShaderErrors
            <=> ~(gl_status.vertex /\ gl_status.fragment /\ gl_status.link))

\* C8: for a slice of n whole triangles the extractor returns 18n values; values
\* 18t+1..18t+18 are the coordinates of v0,v1, v1,v2, v2,v0 of triangle t, in
\* coordinate order, whether or not another triangle has the same edge.
EdgeSource == <<1, 2, 3, 4, 5, 6,  4, 5, 6, 7, 8, 9,  7, 8, 9, 1, 2, 3>>

C8_EdgesOfWholeTriangles ==
    (pc # "extract" /\ Len(vertex_data) % 9 = 0) =>
        LET n == Len(vertex_data) \div 9 IN
        /\ Len(edge_data) = 18 * n
        /\ \A t \in 0..(n - 1) : \A k \in 1..18 :
              edge_data[18 * t + k] = vertex_data[9 * t + EdgeSource[k]]

\* two triangles with a common edge (v1,v2 of the first is v0,v1 of the second):
\* the edge is in the output once for each
C8_SharedEdgeTwice ==
    /\ pc # "extract"
    /\ Len(vertex_data) = 18
    /\ SubSeq(vertex_data, 4, 9) = SubSeq(vertex_data, 10, 15)
    /\ SubSeq(vertex_data, 4, 6) # SubSeq(vertex_data, 7, 9)
    /\ Len(edge_data) = 36
    /\ SubSeq(edge_data, 7, 12) = SubSeq(edge_data, 19, 24)

\* C9: a failure to resolve the mvp uniform aborts the program before any draw
\* call of any frame has been issued.
C9_UniformFailureBeforeAnyDraw ==
    error = "no location for uniform" =>
        \A i \in DOMAIN frame_ops : frame_ops[i].op # "draw"

\* C10: a step that matches a quit event or an escape key-down ends in Terminated
\* with theta, phi, zoom_factor and the drag state unchanged; a step that matches
\* any other event stays in Running; Terminated is entered by no other step, and
\* no step leaves it or changes anything in it.
C10_QuitTerminates ==
    [][ LET handled == events_handled' = events_handled + 1 IN
        /\ (handled /\ IsQuitOrEscape(event')) =>
              (pc' = "terminated" /\ UNCHANGED <<camera, drag>>)
        /\ (handled /\ ~IsQuitOrEscape(event')) => pc' = "poll"
        /\ (pc' = "terminated" /\ pc # "terminated") =>
              (pc = "poll" /\ handled /\ IsQuitOrEscape(event'))
        /\ pc # "terminated" ]_vars

\* the loop ended by an escape key with the camera away from its initial state
C10_TerminatedByEscape ==
    /\ pc = "terminated"
    /\ event = EscapeEvent
    /\ camera_phi # 0
    /\ camera_zoom_factor # One
    /\ mouse_is_dragging

\* a step that takes an event from the pump (the budget keeps the count exact)
Handled == events_handled' = events_handled + 1

LeftPress(e)   == e.kind = "MouseButtonDown" /\ e.btn = "Left"
LeftRelease(e) == e.kind = "MouseButtonUp" /\ e.btn = "Left"
LeftReleaseEvent   == Ev("MouseButtonUp", "-", "Left", 0, 0)

\* C11: the mesh pass issues its draw call with 3 vertices per triangle (a third
\* of the mesh buffer's float length) and the gizmo pass with exactly 6 vertices,
\* for every mesh size.
C11_MeshAndGizmoDrawCounts ==
    \A i \in DOMAIN frame_ops :
        /\ frame_ops[i].pass = "mesh" =>
              /\ frame_ops[i].count = Len(vertex_data) \div 3
              /\ frame_ops[i].count = 3 * (Len(vertex_data) \div 9)
        /\ frame_ops[i].pass = "axis" => frame_ops[i].count = 6

\* a presented frame of a 2-triangle mesh: 6 mesh vertices, 6 gizmo vertices
C11_TwoTriangleFrame ==
    /\ pc = "poll"
    /\ Len(vertex_data) = 18
    /\ Len(frame_ops) = 6
    /\ frame_ops[3].pass = "mesh" /\ frame_ops[3].count = 6
    /\ frame_ops[5].pass = "axis" /\ frame_ops[5].count = 6

\* C12: a step matching a left-button press sets is_dragging and stores the
\* event's position in last_cursor; a step matching a left-button release clears
\* is_dragging; neither changes theta, phi or zoom_factor.
C12_PressReleaseKeepCamera ==
    [][ /\ (Handled /\ LeftPress(event')) =>
              /\ mouse_is_dragging'
              /\ mouse_last_x' = event'.x /\ mouse_last_y' = event'.y
              /\ UNCHANGED camera
        /\ (Handled /\ LeftRelease(event')) =>
              /\ ~mouse_is_dragging'
              /\ UNCHANGED camera ]_vars

\* rotate-right, then a press at (100, 320) followed at once by the release: the
\* camera is where the key left it
C12_PressThenRelease ==
    /\ event = LeftReleaseEvent
    /\ events_handled = 3
    /\ ~mouse_is_dragging
    /\ mouse_last_x = 100 /\ mouse_last_y = 320
    /\ camera_theta = Tenth /\ camera_phi = 0 /\ camera_zoom_factor = One

Half == One \div 2      \* 0.5f32

\* what a dragging pointer-move to event' does, but for the (100, 0) case
DragMoveEffect ==
    /\ camera_theta' = AddF32(camera_theta, MulDragGain(event'.x - mouse_last_x))
    /\ camera_phi' = Clamp(AddF32(camera_phi, MulDragGain(event'.y - mouse_last_y)),
                           -FRAC_PI_2, FRAC_PI_2)
    /\ mouse_last_x' = event'.x /\ mouse_last_y' = event'.y
    /\ UNCHANGED <<camera_zoom_factor, mouse_is_dragging>>

DragMove == Handled /\ event'.kind = "MouseMotion" /\ mouse_is_dragging
DragMove100 == event'.x - mouse_last_x = 100 /\ event'.y - mouse_last_y = 0

\* C13 as stated: a pointer-move while dragging adds dx * 0.005 to theta, adds
\* dy * 0.005 to phi and clamps it, stores the position, keeps zoom_factor and
\* is_dragging; with (dx, dy) = (100, 0) theta changes by exactly 0.5 and phi
\* does not change.
C13_DragMoveChangesThetaByHalf ==
    [][ DragMove =>
          /\ DragMoveEffect
          /\ DragMove100 =>
                (camera_theta' - camera_theta = Half /\ camera_phi' = camera_phi) ]_vars

\* C13 as amended: the same, but with (dx, dy) = (100, 0) the amount added is
\* exactly 0.5 and theta becomes the f32 nearest to theta + 0.5: a change of
\* exactly 0.5 from theta = 0, of 0.5 up to one rounding otherwise.
C13_DragMoveAddsHalfInF32 ==
    [][ DragMove =>
          /\ DragMoveEffect
          /\ DragMove100 =>
                /\ camera_theta' = AddF32(camera_theta, Half)
                /\ camera_theta = 0 => camera_theta' = Half
                /\ camera_phi' = camera_phi ]_vars

\* a press at (0, 0) and a move to (100, 0) from the initial camera
C13_DraggedByHundred ==
    /\ event = Ev("MouseMotion", "-", "-", 100, 0)
    /\ events_handled = 2
    /\ mouse_is_dragging
    /\ mouse_last_x = 100 /\ mouse_last_y = 0
    /\ camera_theta = Half /\ camera_phi = 0

\* C14: a step matching a pointer-move while is_dragging is false changes none of
\* theta, phi, zoom_factor, is_dragging, last_cursor_x, last_cursor_y.
C14_IdleMoveChangesNothing ==
    [][ (Handled /\ event'.kind = "MouseMotion" /\ ~mouse_is_dragging) =>
            UNCHANGED <<camera, drag>> ]_vars

\* a move to (100, 320) after a drag ended at (0, 320): the stored position and
\* the camera are those of the drag
C14_IdleMove ==
    /\ event = Ev("MouseMotion", "-", "-", 100, 320)
    /\ events_handled = 4
    /\ ~mouse_is_dragging
    /\ mouse_last_x = 0 /\ mouse_last_y = 320
    /\ camera_phi = FRAC_PI_2

KeyStep(k) == Handled /\ event'.kind = "KeyDown" /\ event'.key = k

\* C15: a step matching a scroll event moves zoom_factor by one step of 0.1f32,
\* down if y > 0 and up for every other y, whatever the magnitude of y, then
\* clamps it to [0.1, 10.0]; theta, phi and the drag state are unchanged.
C15_ScrollStepsBySign ==
    [][ (Handled /\ event'.kind = "MouseWheel") =>
          /\ event'.y > 0 =>
                camera_zoom_factor' =
                    Clamp(SubF32(camera_zoom_factor, Tenth), ZoomMin, ZoomMax)
          /\ event'.y <= 0 =>
                camera_zoom_factor' =
                    Clamp(AddF32(camera_zoom_factor, Tenth), ZoomMin, ZoomMax)
          /\ UNCHANGED <<camera_theta, camera_phi, drag>> ]_vars

\* a scroll of y = 3 from zoom 1.0 during a drag: one step down, not three
C15_ScrollByThree ==
    /\ event = Ev("MouseWheel", "-", "-", 0, 3)
    /\ events_handled = 2
    /\ mouse_is_dragging
    /\ camera_zoom_factor = SubF32(One, Tenth)

\* C16: a step matching the Left (Right) key subtracts (adds) 0.1f32 from theta
\* without a clamp; a step matching the Up (Down) key adds (subtracts) 0.1f32 to
\* phi and leaves it clamped into [-pi/2, pi/2]; each leaves the other camera
\* values and the drag state unchanged, dragging or not.
C16_KeysRotateAndTilt ==
    [][ /\ KeyStep("Left") =>
              /\ camera_theta' = SubF32(camera_theta, Tenth)
              /\ UNCHANGED <<camera_phi, camera_zoom_factor, drag>>
        /\ KeyStep("Right") =>
              /\ camera_theta' = AddF32(camera_theta, Tenth)
              /\ UNCHANGED <<camera_phi, camera_zoom_factor, drag>>
        /\ KeyStep("Up") =>
              /\ camera_phi' = Clamp(AddF32(camera_phi, Tenth), -FRAC_PI_2, FRAC_PI_2)
              /\ UNCHANGED <<camera_theta, camera_zoom_factor, drag>>
        /\ KeyStep("Down") =>
              /\ camera_phi' = Clamp(SubF32(camera_phi, Tenth), -FRAC_PI_2, FRAC_PI_2)
              /\ UNCHANGED <<camera_theta, camera_zoom_factor, drag>> ]_vars

\* rotate-left and tilt-up handled while a drag is in progress
C16_KeysDuringDrag ==
    /\ event = KeyUpEvent
    /\ events_handled = 3
    /\ mouse_is_dragging
    /\ camera_theta = -Tenth
    /\ camera_phi = Tenth

\* C17: once a quit or escape event has been matched the run is in Terminated:
\* the step that matched it issued no backend operation and left the camera and
\* drag state as they were, the operations on record are those of the last
\* complete iteration (or none), and no later step takes an event or draws.
C17_QuitCutsTheBatch ==
    [][ /\ IsQuitOrEscape(event') => pc' = "terminated"
        /\ pc' = "terminated" =>
              /\ frame_ops' = frame_ops
              /\ Len(frame_ops') \in {0, 6}
              /\ Len(frame_ops') = 6 => frame_ops'[6].op = "swap"
              /\ UNCHANGED <<camera, drag, depth_test>>
        /\ pc # "terminated" ]_vars

\* a quit matched after a presented frame and a rotate-right, with events still
\* deliverable
C17_QuitAfterFrame ==
    /\ pc = "terminated"
    /\ event \in QuitEvents
    /\ Len(frame_ops) = 6
    /\ events_handled = 2
    /\ events_handled < MaxEvents
    /\ camera_theta = Tenth

DrawPcs == {"draw_obj", "draw_edges", "draw_axes"}

C19_DrawFailureEndsRun ==
    [][ /\ (error' # error /\ pc \in LoopPcs) =>
              /\ pc \in DrawPcs
              /\ error' = "no location for uniform"
              /\ pc' = "aborted"
              /\ frame_ops' = frame_ops
              /\ Len(frame_ops') = IssuedAt(pc)
              /\ \A i \in DOMAIN frame_ops' : frame_ops'[i].op # "swap"
              /\ UNCHANGED <<camera, drag, event, events_handled>>
        /\ pc # "aborted" ]_vars

\* draw_edges failed after the mesh was drawn, in a run that had taken an event
C19_EdgePassFailed ==
    /\ pc = "aborted"
    /\ error = "no location for uniform"
    /\ Len(frame_ops) = 3
    /\ frame_ops[3].pass = "mesh"
    /\ events_handled >= 1

====
